---------------------------- MODULE Spec2Model ----------------------------
(***************************************************************************)
(* Model of the violation-detection web application:                       *)
(*   - pages/api/predict.js : loadModel, preprocessImage, runInference,    *)
(*     the description table and the request handler with its Ranker loop; *)
(*   - src/app/page.tsx     : the HomePage component's handlers.           *)
(*                                                                         *)
(* Conventions.  Probabilities are integers in thousandths (0.99 is 990),  *)
(* so sums are exact.  JavaScript strings are sequences of tokens, so that *)
(* String.replace and template concatenation are sequence operations.      *)
(* Indices are 0-based as in the source; sequence access adds one.         *)
(* `undefined`/`null` strings are the empty string (both are falsy).       *)
(***************************************************************************)
EXTENDS Integers, Sequences, FiniteSets, TLC

VARIABLES
    session,      \* predict.js:11   module-level cached model handle (0 = undefined)
    nCreated,     \* number of sessions InferenceSession.create has produced
    req,          \* per request: position in handler and its locals
    responses,    \* per request: the responses sent on `res`
    file,         \* page.tsx:14  useState<File | null>
    predictions,  \* page.tsx:15  useState<PredictionResult[] | null>
    loading,      \* page.tsx:16  useState(false)
    error,        \* page.tsx:17  useState("")
    ui            \* position of the (single) handleUpload call and the fetch it made

serverVars == <<session, nCreated, req, responses>>
uiVars == <<file, predictions, loading, error, ui>>
vars == <<session, nCreated, req, responses, file, predictions, loading, error, ui>>

----------------------------------------------------------------------------
(* Bounds of the model *)

\* concurrent requests in flight
NumRequests == 2
\* stand-ins for `width = 640` and `height = 640` of preprocessImage
Width == 3
Height == 2
\* number of entries of a generated model output that differ from its baseline
MaxHot == 2
\* number of uploads the UI starts
MaxUploads == 2

\* predict.js:158  the 0.99 cumulative threshold, in thousandths
Threshold == 990

----------------------------------------------------------------------------
(* Small helpers *)

RECURSIVE SumSeq(_)
SumSeq(s) == IF s = <<>> THEN 0 ELSE Head(s) + SumSeq(Tail(s))

Range(s) == {s[i] : i \in 1..Len(s)}

----------------------------------------------------------------------------
(* predict.js:66-73 and 116-129: the description table and the taxonomy *)

baseCodeDescriptionsMissingEntry ==
    ( <<"OSHA 1910.37(a)(3)">> :> <<"Employers must provide machine guarding for fixed machinery to protect workers from moving parts.">> )
 @@ ( <<"OSHA 1910.303(e)(1)">> :> <<"Electrical equipment must be marked with the manufacturer's identification and rating information.">> )
 @@ ( <<"OSHA 1910.303(g)(1)">> :> <<"Adequate working space must be maintained around electrical equipment for safe operation and maintenance.">> )
 @@ ( <<"OSHA 1910.157(c)(1)">> :> <<"Portable fire extinguishers must be provided, properly mounted, and clearly identified for quick access.">> )
 @@ ( <<"ANSI A13.1 (Pipe Marking)">> :> <<"This standard defines requirements for marking and identifying piping systems using color codes and labels.">> )

baseCodeDescriptions ==
    ( <<"OSHA 1910.37(a)(3)">> :> <<"Employers must provide machine guarding for fixed machinery to protect workers from moving parts.">> )
 @@ ( <<"OSHA 1910.303(e)(1)">> :> <<"Electrical equipment must be marked with the manufacturer's identification and rating information.">> )
 @@ ( <<"OSHA 1910.303(g)(1)">> :> <<"Adequate working space must be maintained around electrical equipment for safe operation and maintenance.">> )
 @@ ( <<"OSHA 1910.157(c)(1)">> :> <<"Portable fire extinguishers must be provided, properly mounted, and clearly identified for quick access.">> )
 @@ ( <<"ANSI A13.1 (Pipe Marking)">> :> <<"This standard defines requirements for marking and identifying piping systems using color codes and labels.">> )
 @@ ( <<"ANSI Z358.1-2014 (Emergency Equipment)">> :> <<"This standard specifies requirements for emergency eyewash and shower equipment to ensure rapid decontamination.">> )

classNames == <<
    <<"OSHA 1910.37(a)(3)", "_Before">>,
    <<"OSHA 1910.37(a)(3)", "_After">>,
    <<"OSHA 1910.303(e)(1)", "_Before">>,
    <<"OSHA 1910.303(e)(1)", "_After">>,
    <<"OSHA 1910.303(g)(1)", "_Before">>,
    <<"OSHA 1910.303(g)(1)", "_After">>,
    <<"OSHA 1910.157(c)(1)", "_Before">>,
    <<"OSHA 1910.157(c)(1)", "_After">>,
    <<"ANSI A13.1 (Pipe Marking)", "_Before">>,
    <<"ANSI A13.1 (Pipe Marking)", "_After">>,
    <<"ANSI Z358.1-2014 (Emergency Equipment)", "_Before">>,
    <<"ANSI Z358.1-2014 (Emergency Equipment)", "_After">> >>

\* String.prototype.replace(pattern, ''): the first occurrence of the pattern
\* is removed; a string without the pattern is returned unchanged.
RECURSIVE Replace(_, _)
Replace(str, pattern) ==
    IF str = <<>> THEN <<>>
    ELSE IF Head(str) = pattern THEN Tail(str)
    ELSE <<Head(str)>> \o Replace(Tail(str), pattern)

----------------------------------------------------------------------------
(* predict.js:131-159: the Ranker *)

\* predict.js:133  predictions.map((prob, idx) => ({ index: idx, prob }))
IndexedPredictions(preds) ==
    [k \in 1..Len(preds) |-> [index |-> k - 1, prob |-> preds[k]]]

CompareAscending(a, b) == a.prob - b.prob

\* predict.js:134  the comparator (a, b) => b.prob - a.prob
Compare(a, b) == b.prob - a.prob

\* Array.prototype.sort is stable: an element is placed before the first
\* element the comparator orders strictly after it, and after its equals.
RECURSIVE InsertPosition(_, _, _)
InsertPosition(sorted, x, p) ==
    IF p > Len(sorted) THEN p
    ELSE IF Compare(sorted[p], x) > 0 THEN p
    ELSE InsertPosition(sorted, x, p + 1)

RECURSIVE SortPrefix(_, _)
SortPrefix(arr, n) ==
    IF n = 0 THEN <<>>
    ELSE LET sorted == SortPrefix(arr, n - 1)
             p == InsertPosition(sorted, arr[n], 1)
         IN  SubSeq(sorted, 1, p - 1) \o <<arr[n]>> \o SubSeq(sorted, p, Len(sorted))

Sort(arr) == SortPrefix(arr, Len(arr))

BaseCodeSwappedSuffix(idx) ==
    IF idx % 2 = 0 THEN Replace(classNames[idx + 1], "_After")
                   ELSE Replace(classNames[idx + 1], "_Before")

\* predict.js:144-146
BaseCode(idx) ==
    IF idx % 2 = 0 THEN Replace(classNames[idx + 1], "_Before")
                   ELSE Replace(classNames[idx + 1], "_After")

\* predict.js:148-150
Prediction(idx, baseCode) ==
    IF idx % 2 = 0 THEN <<"Violation - ">> \o baseCode
                   ELSE <<"No Violation - ">> \o baseCode

\* predict.js:152-154  (`||` also falls back on an empty description)
Caption(idx, baseCode) ==
    IF idx % 2 = 0
    THEN IF baseCode \in DOMAIN baseCodeDescriptions /\ baseCodeDescriptions[baseCode] # <<>>
         THEN baseCodeDescriptions[baseCode]
         ELSE <<"No description available.">>
    ELSE <<"No violation detected.">>

\* predict.js:147-156
PredObj(entry) ==
    LET idx == entry.index
        baseCode == BaseCode(idx)
    IN  [prediction |-> Prediction(idx, baseCode),
         probability |-> entry.prob,
         caption |-> Caption(idx, baseCode),
         code |-> baseCode]

ThresholdReachedStrict(cumulativeProb) == cumulativeProb > Threshold

\* predict.js:158
ThresholdReached(cumulativeProb) == cumulativeProb >= Threshold

RECURSIVE RankLoopCheckBeforePush(_, _, _, _)
RankLoopCheckBeforePush(sortedIndices, i, cumulativeProb, result) ==
    IF i >= Len(sortedIndices) THEN result
    ELSE LET cum == cumulativeProb + sortedIndices[i + 1].prob
         IN  IF ThresholdReached(cum) THEN result
             ELSE RankLoopCheckBeforePush(sortedIndices, i + 1, cum,
                                          Append(result, PredObj(sortedIndices[i + 1])))

\* predict.js:139-159  the loop from iteration i on; the value is `result`
RECURSIVE RankLoop(_, _, _, _)
RankLoop(sortedIndices, i, cumulativeProb, result) ==
    IF i >= Len(sortedIndices) THEN result
    ELSE LET cum == cumulativeProb + sortedIndices[i + 1].prob
             pushed == Append(result, PredObj(sortedIndices[i + 1]))
         IN  IF ThresholdReached(cum) THEN pushed
             ELSE RankLoop(sortedIndices, i + 1, cum, pushed)

----------------------------------------------------------------------------
(* predict.js:19-47: preprocessImage *)

\* predict.js:37,40  the three RGB channels left by removeAlpha()
Channels == 3

\* A Float32 value is mantissa * 2^(-exponent), mantissa of at most 24 bits;
\* zero is [m |-> 0, e |-> 0]; NaN is what a typed array stores for `undefined`.
Float32Zero == [m |-> 0, e |-> 0]
Float32NaN == [m |-> 0, e |-> -1]

\* Binary long division of r/d to 24 significant bits, round to nearest, ties
\* to even: the value Float32Array stores for the quotient.
RECURSIVE Float32Quotient(_, _, _, _, _)
Float32Quotient(r, d, m, e, bits) ==
    IF bits = 24
    THEN LET up == (2 * r > d) \/ (2 * r = d /\ m % 2 = 1)
             rounded == IF up THEN m + 1 ELSE m
         IN  IF rounded = 16777216 THEN [m |-> 8388608, e |-> e - 1]
                                   ELSE [m |-> rounded, e |-> e]
    ELSE LET bit == IF 2 * r >= d THEN 1 ELSE 0
         IN  Float32Quotient(2 * r - bit * d, d, 2 * m + bit, e + 1,
                             IF m > 0 \/ bit = 1 THEN bits + 1 ELSE 0)

\* predict.js:32  data[i] / 255.0 stored into a Float32Array
Scale(byte) ==
    IF byte = 0 THEN Float32Zero
    ELSE Float32Quotient(byte % 255, 255, byte \div 255, 0, byte \div 255)

scaleTable == [byte \in 0..255 |-> Scale(byte)]

\* predict.js:29-33
NhwcTensor(data) == [k \in 1..Len(data) |-> scaleTable[data[k]]]

\* predict.js:40
NhwcIndex(i, j, c) == i * Width * 3 + j * 3 + c

NchwIndexTransposed(c, i, j) == c * Height * Width + j * Width + i

\* predict.js:41
NchwIndex(c, i, j) == c * Height * Width + i * Width + j

\* Typed-array element read: out of range reads `undefined`, stored as NaN.
ReadFloat32(arr, index) ==
    IF index + 1 \in DOMAIN arr THEN arr[index + 1] ELSE Float32NaN

\* predict.js:40-42  one iteration of the innermost loop.  `writes` counts the
\* stores made to each element of nchwTensor; an out-of-range store is ignored.
CopyElement(st, nhwcTensor, c, i, j) ==
    LET nhwcIndex == NhwcIndex(i, j, c)
        nchwIndex == NchwIndex(c, i, j)
    IN  IF nchwIndex + 1 \in DOMAIN st.nchwTensor
        THEN [nchwTensor |-> [st.nchwTensor EXCEPT ![nchwIndex + 1] = ReadFloat32(nhwcTensor, nhwcIndex)],
              writes |-> [st.writes EXCEPT ![nchwIndex + 1] = @ + 1]]
        ELSE st

\* predict.js:39-43
RECURSIVE LoopJ(_, _, _, _, _)
LoopJ(st, nhwcTensor, c, i, j) ==
    IF j >= Width THEN st
    ELSE LoopJ(CopyElement(st, nhwcTensor, c, i, j), nhwcTensor, c, i, j + 1)

\* predict.js:38-44
RECURSIVE LoopI(_, _, _, _)
LoopI(st, nhwcTensor, c, i) ==
    IF i >= Height THEN st
    ELSE LoopI(LoopJ(st, nhwcTensor, c, i, 0), nhwcTensor, c, i + 1)

\* predict.js:37-45
RECURSIVE LoopC(_, _, _)
LoopC(st, nhwcTensor, c) ==
    IF c >= Channels THEN st
    ELSE LoopC(LoopI(st, nhwcTensor, c, 0), nhwcTensor, c + 1)

\* predict.js:29-46  the part of preprocessImage after sharp has produced `data`
PreprocessImage(data) ==
    LET nhwcTensor == NhwcTensor(data)
        zeros == [k \in 1..(Height * Width * Channels) |-> Float32Zero]
        st == LoopC([nchwTensor |-> zeros,
                     writes |-> [k \in 1..(Height * Width * Channels) |-> 0]],
                    nhwcTensor, 0)
    IN  [nhwcTensor |-> nhwcTensor, nchwTensor |-> st.nchwTensor, writes |-> st.writes]

----------------------------------------------------------------------------
(* predict.js:81-163: the request handler, with runInference and loadModel *)

\* files.image as formidable hands it over: absent, one file object, or an
\* array of file objects.  A file object carries `filepath` (formidable v2+)
\* or `path` (v1); a missing property is the empty string.
FileNew == [filepath |-> "/tmp/upload_new", path |-> ""]
FileOld == [filepath |-> "", path |-> "/tmp/upload_old"]
FileNoPath == [filepath |-> "", path |-> ""]

NoImage == [isArray |-> FALSE, items |-> <<>>]
ImageInputs ==
    { NoImage,
      [isArray |-> FALSE, items |-> <<FileNew>>],
      [isArray |-> FALSE, items |-> <<FileNoPath>>],
      [isArray |-> TRUE, items |-> <<>>],
      [isArray |-> TRUE, items |-> <<FileOld>>],
      [isArray |-> TRUE, items |-> <<FileNoPath, FileNew>>] }

Methods == {"GET", "POST"}

IdleRequest ==
    [pc |-> "idle", method |-> "", parseErr |-> FALSE, image |-> NoImage,
     model |-> 0, nhwcTensor |-> <<>>, inputTensor |-> <<>>, writes |-> <<>>,
     predictions |-> <<>>, sortedIndices |-> <<>>, failedAt |-> ""]

ErrorBody(message) == [keys |-> {"error"}, error |-> message, predictions |-> <<>>]
PredictionsBody(result) == [keys |-> {"predictions"}, error |-> "", predictions |-> result]

\* res.status(code).json(body)
Send(r, code, body) ==
    responses' = [responses EXCEPT ![r] = Append(@, [status |-> code, body |-> body])]

\* The async callback's promise rejects; nothing awaits or catches it, and no
\* statement after the throwing one runs.
Reject(r, at) ==
    /\ req' = [req EXCEPT ![r].pc = "rejected", ![r].failedAt = at]
    /\ UNCHANGED responses

HandlerWithoutMethodCheck(r) ==
    /\ req[r].pc = "idle"
    /\ \E method \in Methods :
           req' = [req EXCEPT ![r].pc = "parsing", ![r].method = method]
    /\ UNCHANGED <<session, nCreated, responses, uiVars>>

\* predict.js:81-87  the synchronous part of handler: the method check, then
\* form.parse is started and handler returns.
Handler(r) ==
    /\ req[r].pc = "idle"
    /\ \E method \in Methods :
           IF method # "POST"
           THEN /\ Send(r, 405, ErrorBody("Method Not Allowed"))
                /\ req' = [req EXCEPT ![r].pc = "done", ![r].method = method]
           ELSE /\ req' = [req EXCEPT ![r].pc = "parsing", ![r].method = method]
                /\ UNCHANGED responses
    /\ UNCHANGED <<session, nCreated, uiVars>>

\* predict.js:94-97
FirstFile(image) ==
    IF image.isArray
    THEN IF Len(image.items) > 0 THEN <<image.items[1]>> ELSE <<>>
    ELSE image.items

\* predict.js:102  file.filepath || file.path
FilePath(f) == IF f.filepath # "" THEN f.filepath ELSE f.path

\* predict.js:87-112 with 50-52 and 12-16: the form.parse callback up to the
\* first await that suspends it.  readOk: whether fs.readFileSync returns.
\* With a cached session loadModel returns it at once and the callback goes
\* on to preprocessImage; otherwise InferenceSession.create is started.
ParseCallback(r) ==
    /\ req[r].pc = "parsing"
    /\ \E err \in BOOLEAN, image \in ImageInputs, readOk \in BOOLEAN :
       LET seen == [req EXCEPT ![r].parseErr = err, ![r].image = image]
           f == FirstFile(image)
       IN  IF err
           THEN /\ Send(r, 500, ErrorBody("Error parsing the file"))
                /\ req' = [seen EXCEPT ![r].pc = "done"]
           ELSE IF f = <<>>
           THEN /\ Send(r, 400, ErrorBody("No image provided"))
                /\ req' = [seen EXCEPT ![r].pc = "done"]
           ELSE IF FilePath(f[1]) = ""
           THEN /\ Send(r, 400, ErrorBody("No valid file path provided."))
                /\ req' = [seen EXCEPT ![r].pc = "done"]
           ELSE IF ~readOk
           THEN /\ req' = [seen EXCEPT ![r].pc = "rejected", ![r].failedAt = "readFileSync"]
                /\ UNCHANGED responses
           ELSE IF session = 0
           THEN /\ req' = [seen EXCEPT ![r].pc = "creating"]
                /\ UNCHANGED responses
           ELSE /\ req' = [seen EXCEPT ![r].pc = "preprocessing", ![r].model = session]
                /\ UNCHANGED responses
    /\ UNCHANGED <<session, nCreated, uiVars>>

\* predict.js:14-16, 51-52  InferenceSession.create resolves: the handle is
\* stored in `session`, returned, and preprocessImage is started.
CreateResolve(r) ==
    /\ req[r].pc = "creating"
    /\ nCreated' = nCreated + 1
    /\ session' = nCreated + 1
    /\ req' = [req EXCEPT ![r].pc = "preprocessing", ![r].model = nCreated + 1]
    /\ UNCHANGED <<responses, uiVars>>

\* predict.js:14  InferenceSession.create rejects (model file unreadable)
CreateReject(r) ==
    /\ req[r].pc = "creating"
    /\ Reject(r, "loadModel")
    /\ UNCHANGED <<session, nCreated, uiVars>>

\* predict.js:23-55  sharp resolves with `data`; the tensor is built and
\* model.run is started.
PreprocessResolve(r, buffers) ==
    /\ req[r].pc = "preprocessing"
    /\ \E data \in buffers :
       LET out == PreprocessImage(data)
       IN  req' = [req EXCEPT ![r].pc = "running",
                              ![r].nhwcTensor = out.nhwcTensor,
                              ![r].inputTensor = out.nchwTensor,
                              ![r].writes = out.writes]
    /\ UNCHANGED <<session, nCreated, responses, uiVars>>

\* predict.js:23-27  sharp rejects (corrupt or unsupported image)
PreprocessReject(r) ==
    /\ req[r].pc = "preprocessing"
    /\ Reject(r, "preprocessImage")
    /\ UNCHANGED <<session, nCreated, uiVars>>

\* predict.js:57  results.output ? "output" : Object.keys(results)[0];
\* `results` is the sequence of its (key, tensor) entries in key order.
OutputTensor(results) ==
    LET named == {k \in 1..Len(results) : results[k].key = "output"}
    IN  IF named # {} THEN <<results[CHOOSE k \in named : TRUE]>>
        ELSE IF Len(results) > 0 THEN <<results[1]>>
        ELSE <<>>

\* predict.js:55-62, 112-161  model.run resolves: the output tensor is
\* extracted, ranked and sent.  A tensor's `data` is <<>> when it has none.
RunResolve(r, outputs) ==
    /\ req[r].pc = "running"
    /\ \E results \in outputs :
       LET outputTensor == OutputTensor(results)
       IN  IF outputTensor = <<>> \/ outputTensor[1].data = <<>>
           THEN Reject(r, "outputTensor")
           ELSE LET preds == outputTensor[1].data[1]
                    sortedIndices == Sort(IndexedPredictions(preds))
                    result == RankLoop(sortedIndices, 0, 0, <<>>)
                IN  /\ Send(r, 200, PredictionsBody(result))
                    /\ req' = [req EXCEPT ![r].pc = "done",
                                          ![r].predictions = preds,
                                          ![r].sortedIndices = sortedIndices]
    /\ UNCHANGED <<session, nCreated, uiVars>>

\* predict.js:55  model.run rejects
RunReject(r) ==
    /\ req[r].pc = "running"
    /\ Reject(r, "model.run")
    /\ UNCHANGED <<session, nCreated, uiVars>>

----------------------------------------------------------------------------
(* src/app/page.tsx (src/unnamed/part_001): the HomePage component *)

\* Values of the `predictions` state: null, undefined, or a list.
Null == [kind |-> "null", items |-> <<>>]
Undefined == [kind |-> "undefined", items |-> <<>>]
List(items) == [kind |-> "list", items |-> items]

IdleUi(sent) == [pc |-> "idle", sent |-> sent, body |-> "", res |-> <<>>]

\* page.tsx:20-26  e.target.files is a (possibly empty) list of files
HandleFileChange(files) ==
    /\ Len(files) > 0
    /\ file' = files[1]
    /\ predictions' = Null
    /\ error' = ""
    /\ UNCHANGED <<loading, ui, serverVars>>

\* page.tsx:29-43, 68  the button is disabled while `loading`; the call runs
\* up to `await fetch(...)`.
HandleUpload ==
    /\ ~loading
    /\ ui.sent < MaxUploads
    /\ IF file = ""
       THEN /\ error' = "Please select an image."
            /\ UNCHANGED <<loading, ui>>
       ELSE /\ loading' = TRUE
            /\ error' = ""
            /\ ui' = [pc |-> "fetching", sent |-> ui.sent + 1, body |-> file, res |-> <<>>]
    /\ UNCHANGED <<file, predictions, serverVars>>

\* page.tsx:40-51  fetch resolves with a response; res.json() is started
FetchResolve(res) ==
    /\ ui.pc = "fetching"
    /\ ui' = [ui EXCEPT !.pc = "readingBody", !.res = <<res>>]
    /\ UNCHANGED <<file, predictions, loading, error, serverVars>>

FetchRejectWithoutFinally ==
    /\ ui.pc = "fetching"
    /\ error' = "Error during prediction."
    /\ ui' = IdleUi(ui.sent)
    /\ UNCHANGED <<file, predictions, loading, serverVars>>

\* page.tsx:40, 53-58  fetch rejects: catch, then finally
FetchReject ==
    /\ ui.pc = "fetching"
    /\ error' = "Error during prediction."
    /\ loading' = FALSE
    /\ ui' = IdleUi(ui.sent)
    /\ UNCHANGED <<file, predictions, serverVars>>

\* page.tsx:45-52, 56-58  res.json() resolves
JsonResolve ==
    /\ ui.pc = "readingBody"
    /\ ui.res[1].validJson
    /\ LET res == ui.res[1]
       IN  IF ~res.ok
           THEN /\ error' = (IF res.error # "" THEN res.error ELSE "Failed to get prediction.")
                /\ UNCHANGED predictions
           ELSE /\ predictions' = res.predictions
                /\ UNCHANGED error
    /\ loading' = FALSE
    /\ ui' = IdleUi(ui.sent)
    /\ UNCHANGED <<file, serverVars>>

\* page.tsx:46, 51, 53-58  res.json() rejects: catch, then finally
JsonReject ==
    /\ ui.pc = "readingBody"
    /\ ~ui.res[1].validJson
    /\ error' = "Error during prediction."
    /\ loading' = FALSE
    /\ ui' = IdleUi(ui.sent)
    /\ UNCHANGED <<file, predictions, serverVars>>

----------------------------------------------------------------------------
(* Inputs *)

SelectedFiles == { <<>>, <<"a.png">>, <<"b.png", "a.png">> }

SomeResult == <<[prediction |-> <<"Violation - ", "OSHA 1910.37(a)(3)">>, probability |-> 995,
                 caption |-> baseCodeDescriptions[<<"OSHA 1910.37(a)(3)">>],
                 code |-> <<"OSHA 1910.37(a)(3)">>]>>

FetchResponses ==
    { [ok |-> TRUE, validJson |-> TRUE, error |-> "", predictions |-> List(SomeResult)],
      [ok |-> TRUE, validJson |-> TRUE, error |-> "", predictions |-> List(<<>>)],
      [ok |-> TRUE, validJson |-> TRUE, error |-> "", predictions |-> Undefined],
      [ok |-> TRUE, validJson |-> FALSE, error |-> "", predictions |-> Undefined],
      [ok |-> FALSE, validJson |-> TRUE, error |-> "No image provided", predictions |-> Undefined],
      [ok |-> FALSE, validJson |-> TRUE, error |-> "", predictions |-> Undefined],
      [ok |-> FALSE, validJson |-> TRUE, error |-> "Error parsing the file", predictions |-> List(SomeResult)],
      [ok |-> FALSE, validJson |-> FALSE, error |-> "", predictions |-> Undefined] }

NumClasses == Len(classNames)

\* Vectors of NumClasses probabilities equal to `base` except in at most k places.
HotVectors(base, values, k) ==
    UNION { { [i \in 1..NumClasses |-> IF i \in S THEN f[i] ELSE base] : f \in [S -> values] }
            : S \in {T \in SUBSET (1..NumClasses) : Cardinality(T) <= k} }

\* The vector of the specification's worked example, in thousandths.
ExampleVector == <<500, 300, 50, 50, 20, 20, 20, 20, 10, 5, 4, 1>>

RankerVectors ==
    {ExampleVector} \cup HotVectors(0, {-5, 490, 985}, MaxHot)
                    \cup HotVectors(50, {-5, 490, 985}, MaxHot)

ServerVectors == {ExampleVector, [i \in 1..NumClasses |-> IF i = 4 THEN 995 ELSE 0]}

\* The objects model.run may resolve with: each of `vectors` under the key
\* "output"; one vector under another first key, and under "output" behind a
\* first key without data; no key at all; a tensor without data.
NamedResults(vectors) == { <<[key |-> "output", data |-> <<v>>]>> : v \in vectors }
ModelResults(vectors) ==
    NamedResults(vectors)
    \cup { <<[key |-> "output0", data |-> <<ExampleVector>>]>>,
           <<[key |-> "aux", data |-> <<>>], [key |-> "output", data |-> <<ExampleVector>>]>>,
           <<>>,
           <<[key |-> "output0", data |-> <<>>]>> }

\* Raw RGB buffers of Height x Width pixels: byte k is seed + stride * k mod 256.
Buffer(seed, stride) ==
    [k \in 1..(Height * Width * Channels) |-> (seed + stride * (k - 1)) % 256]

OneBuffer == { Buffer(7, 5) }
NormalizerBuffers == { Buffer(seed, stride) : seed \in 0..255, stride \in {0, 1, 85} }

----------------------------------------------------------------------------
(* Specifications *)

ServerInit(R) ==
    /\ session = 0
    /\ nCreated = 0
    /\ req = [r \in R |-> IdleRequest]
    /\ responses = [r \in R |-> <<>>]

UiInit ==
    /\ file = ""
    /\ predictions = Null
    /\ loading = FALSE
    /\ error = ""
    /\ ui = IdleUi(0)

ServerNext(R, buffers, outputs) ==
    \E r \in R :
        \/ Handler(r)
        \/ ParseCallback(r)
        \/ CreateResolve(r)
        \/ CreateReject(r)
        \/ PreprocessResolve(r, buffers)
        \/ PreprocessReject(r)
        \/ RunResolve(r, outputs)
        \/ RunReject(r)

UiNext ==
    \/ \E files \in SelectedFiles : HandleFileChange(files)
    \/ HandleUpload
    \/ \E res \in FetchResponses : FetchResolve(res)
    \/ FetchReject
    \/ JsonResolve
    \/ JsonReject

\* Concurrent requests against the endpoint.
Init == ServerInit(1..NumRequests) /\ UiInit
ServerOutputs == ModelResults(ServerVectors)
Next == ServerNext(1..NumRequests, OneBuffer, ServerOutputs)
Spec == Init /\ [][Next]_vars

\* One request, over the model outputs the Ranker is checked on.
RankerInit == ServerInit({1}) /\ UiInit
RankerOutputs == NamedResults(RankerVectors)
RankerNext == ServerNext({1}, OneBuffer, RankerOutputs)
SpecRanker == RankerInit /\ [][RankerNext]_vars

\* One request, over the image buffers preprocessImage is checked on.
NormalizerInit == ServerInit({1}) /\ UiInit
NormalizerOutputs == NamedResults({ExampleVector})
NormalizerNext == ServerNext({1}, NormalizerBuffers, NormalizerOutputs)
SpecNormalizer == NormalizerInit /\ [][NormalizerNext]_vars

\* The page, with the endpoint abstracted to the responses fetch can yield.
UiSpecInit == ServerInit({1}) /\ UiInit
SpecUi == UiSpecInit /\ [][UiNext]_vars

----------------------------------------------------------------------------
(* Properties of the endpoint and the Ranker *)

\* Request r was answered with status code `code`.
Answered(r, code) == Len(responses[r]) > 0 /\ responses[r][1].status = code

\* The predictions of request r's 200 response.
Emitted(r) == responses[r][1].body.predictions

\* Sum of the first k probabilities of a sequence of entries.
ProbSum(entries, k) == SumSeq([i \in 1..k |-> entries[i]])
SortedProbs(r) == [i \in 1..Len(req[r].sortedIndices) |-> req[r].sortedIndices[i].prob]
EmittedProbs(r) == [i \in 1..Len(Emitted(r)) |-> Emitted(r)[i].probability]

\* sorted is the input vector in descending order of probability, equal
\* probabilities in index order.
IsDescendingSort(sorted, preds) ==
    /\ Len(sorted) = Len(preds)
    /\ {sorted[i].index : i \in 1..Len(sorted)} = 0..(Len(preds) - 1)
    /\ \A i \in 1..Len(sorted) : sorted[i].prob = preds[sorted[i].index + 1]
    /\ \A i, j \in 1..Len(sorted) :
          i < j => \/ sorted[i].prob > sorted[j].prob
                   \/ sorted[i].prob = sorted[j].prob /\ sorted[i].index < sorted[j].index

\* n is the length of the shortest prefix of probs whose sum is >= 0.99, or
\* the whole length when no prefix reaches it.
IsShortestCover(probs, n) ==
    /\ n \in 1..Len(probs)
    /\ ProbSum(probs, n) >= 990 \/ n = Len(probs)
    /\ \A k \in 1..(n - 1) : ProbSum(probs, k) < 990

\* The label of taxonomy index idx without its phase suffix.
TaxonomyCode(idx) == SubSeq(classNames[idx + 1], 1, Len(classNames[idx + 1]) - 1)
TaxonomyPhase(idx) == classNames[idx + 1][Len(classNames[idx + 1])]

\* C1: for every output vector of length 12, the emitted results are exactly
\* the shortest prefix of the descending-sorted sequence whose running sum is
\* >= 0.99 (the crossing entry included, nothing after it), and all 12 entries
\* when no prefix reaches 0.99.
C1_ShortestPrefix ==
    \A r \in DOMAIN req :
        Answered(r, 200) =>
            /\ Len(req[r].predictions) = 12
            /\ IsDescendingSort(req[r].sortedIndices, req[r].predictions)
            /\ IsShortestCover(SortedProbs(r), Len(Emitted(r)))
            /\ \A i \in 1..Len(Emitted(r)) :
                  /\ Emitted(r)[i].probability = req[r].sortedIndices[i].prob
                  /\ Emitted(r)[i].code = TaxonomyCode(req[r].sortedIndices[i].index)

\* C1 witness: an output was truncated strictly inside the vector at an entry
\* that brings the sum to exactly 0.99, and that entry is the last one emitted.
C1_Witness ==
    \E r \in DOMAIN req :
        /\ Answered(r, 200)
        /\ Len(Emitted(r)) \in 2..11
        /\ ProbSum(EmittedProbs(r), Len(Emitted(r))) = 990

\* C4: the probabilities of the emitted results are non-increasing in
\* emission order.
C4_NonIncreasing ==
    \A r \in DOMAIN req :
        Answered(r, 200) =>
            \A i \in 2..Len(Emitted(r)) :
                Emitted(r)[i].probability <= Emitted(r)[i - 1].probability

\* C4 witness: an emitted list with a strict decrease and a tie, from an input
\* vector that was not already in descending order.
C4_Witness ==
    \E r \in DOMAIN req :
        /\ Answered(r, 200)
        /\ \E i \in 2..Len(Emitted(r)) : Emitted(r)[i].probability < Emitted(r)[i - 1].probability
        /\ \E i \in 2..Len(Emitted(r)) : Emitted(r)[i].probability = Emitted(r)[i - 1].probability
        /\ \E i \in 2..12 : req[r].predictions[i] > req[r].predictions[i - 1]

\* C5: every emitted result is labelled by the parity of its taxonomy index:
\* even gives "Violation - {baseCode}", odd gives "No Violation - {baseCode}",
\* where baseCode is the taxonomy label at that index without its
\* _Before/_After suffix and is also the result's code field.
C5_ParityLabel ==
    \A r \in DOMAIN req :
        Answered(r, 200) =>
            \A i \in 1..Len(Emitted(r)) :
                LET idx == req[r].sortedIndices[i].index
                    code == TaxonomyCode(idx)
                IN  /\ TaxonomyPhase(idx) = (IF idx % 2 = 0 THEN "_Before" ELSE "_After")
                    /\ Emitted(r)[i].code = code
                    /\ idx % 2 = 0 => Emitted(r)[i].prediction = <<"Violation - ">> \o code
                    /\ idx % 2 = 1 => Emitted(r)[i].prediction = <<"No Violation - ">> \o code

\* C5 witness: a response holding an entry of an even and an entry of an odd
\* taxonomy index.
C5_Witness ==
    \E r \in DOMAIN req :
        /\ Answered(r, 200)
        /\ \E i, j \in 1..Len(Emitted(r)) :
              /\ req[r].sortedIndices[i].index % 2 = 0
              /\ req[r].sortedIndices[j].index % 2 = 1

\* C8: an odd-index entry has the caption "No violation detected."; an
\* even-index entry has the registered description of its code, or "No
\* description available." when the code has none; every Before-phase code of
\* the 12-label taxonomy is registered, so the fallback is never emitted.
C8_Caption ==
    /\ \A idx \in {k \in 0..11 : k % 2 = 0} : TaxonomyCode(idx) \in DOMAIN baseCodeDescriptions
    /\ \A r \in DOMAIN req :
        Answered(r, 200) =>
            \A i \in 1..Len(Emitted(r)) :
                LET idx == req[r].sortedIndices[i].index
                    code == TaxonomyCode(idx)
                    caption == Emitted(r)[i].caption
                IN  /\ idx % 2 = 1 => caption = <<"No violation detected.">>
                    /\ idx % 2 = 0 =>
                          caption = IF code \in DOMAIN baseCodeDescriptions
                                    THEN baseCodeDescriptions[code]
                                    ELSE <<"No description available.">>
                    /\ caption # <<"No description available.">>

\* C8 witness: a response that holds all six Before-phase entries and an
\* After-phase entry.
C8_Witness ==
    \E r \in DOMAIN req :
        /\ Answered(r, 200)
        /\ \A idx \in {0, 2, 4, 6, 8, 10} :
              \E i \in 1..Len(Emitted(r)) : req[r].sortedIndices[i].index = idx
        /\ \E i \in 1..Len(Emitted(r)) : req[r].sortedIndices[i].index % 2 = 1

\* C9 as stated: for the example vector the running sum is 0.85 after the
\* first two emitted entries and 0.90 after three, and the output is truncated
\* at the first entry at which the running sum reaches 0.99.
C9_AsStated ==
    \A r \in DOMAIN req :
        (Answered(r, 200) /\ req[r].predictions = ExampleVector) =>
            /\ ProbSum(EmittedProbs(r), 2) = 850
            /\ ProbSum(EmittedProbs(r), 3) = 900
            /\ IsShortestCover(SortedProbs(r), Len(Emitted(r)))

\* C9 amended: for the example vector the running sum is 0.80 after the first
\* two emitted entries, 0.85 after three and 0.90 after four; the output is
\* truncated at the ninth entry (index 8, probability 0.01), the first at
\* which the running sum reaches 0.99, which it does exactly.
C9_Example ==
    \A r \in DOMAIN req :
        (Answered(r, 200) /\ req[r].predictions = ExampleVector) =>
            /\ ProbSum(EmittedProbs(r), 2) = 800
            /\ ProbSum(EmittedProbs(r), 3) = 850
            /\ ProbSum(EmittedProbs(r), 4) = 900
            /\ Len(Emitted(r)) = 9
            /\ req[r].sortedIndices[9].index = 8
            /\ ProbSum(EmittedProbs(r), 9) = 990
            /\ \A k \in 1..8 : ProbSum(EmittedProbs(r), k) < 990

\* C9 witness: the example vector was ranked and answered.
C9_Witness ==
    \E r \in DOMAIN req : Answered(r, 200) /\ req[r].predictions = ExampleVector

\* The file the handler would use: the first of files.image, if any.
HasFile(image) == Len(image.items) > 0
HasUsablePath(image) ==
    HasFile(image) /\ (image.items[1].filepath # "" \/ image.items[1].path # "")

\* The form.parse callback of request r has run.
Parsed(r) == req[r].method = "POST" /\ req[r].pc \notin {"idle", "parsing"}

\* C2: every failure of a request is translated to an HTTP error response: a
\* request whose handling has ended, also one where image decoding or model
\* inference threw after the upload was parsed, has been sent exactly one
\* response, and on inference failure that response has status 500 and a body
\* with an `error` string.
C2_EveryFailureAnswered ==
    \A r \in DOMAIN req :
        req[r].pc \in {"done", "rejected"} =>
            /\ Len(responses[r]) = 1
            /\ req[r].failedAt # "" =>
                  /\ responses[r][1].status = 500
                  /\ "error" \in responses[r][1].body.keys
                  /\ responses[r][1].body.error # ""

\* C3: the process-wide model handle is initialized once: across any
\* interleaving of concurrent requests calling loadModel the session is
\* created at most one time and the cached handle, once assigned, keeps the
\* value of its first assignment.
C3_InitializedOnce ==
    /\ nCreated <= 1
    /\ session \in {0, 1}

\* C6: the status depends only on the first failing check, in this order: a
\* non-POST request gets 405; a POST whose form fails to parse gets 500; a
\* parsed POST with no image file, or a file with no usable path, gets 400
\* with an `error` key; only a request passing all of these can get 200, and
\* a 200 body holds the Ranker's complete result under `predictions`.
C6_StatusByFirstFailingCheck ==
    \A r \in DOMAIN req :
        /\ Len(responses[r]) <= 1
        /\ req[r].method \notin {"", "POST"} =>
              /\ Answered(r, 405)
              /\ "error" \in responses[r][1].body.keys
        /\ (Parsed(r) /\ req[r].parseErr) =>
              /\ Answered(r, 500)
              /\ "error" \in responses[r][1].body.keys
        /\ (Parsed(r) /\ ~req[r].parseErr /\ ~HasUsablePath(req[r].image)) =>
              /\ Answered(r, 400)
              /\ "error" \in responses[r][1].body.keys
        /\ Answered(r, 200) =>
              /\ Parsed(r) /\ ~req[r].parseErr /\ HasUsablePath(req[r].image)
              /\ responses[r][1].body.keys = {"predictions"}
              /\ IsDescendingSort(req[r].sortedIndices, req[r].predictions)
              /\ IsShortestCover(SortedProbs(r), Len(Emitted(r)))
              /\ \A i \in 1..Len(Emitted(r)) :
                    Emitted(r)[i] = PredObj(req[r].sortedIndices[i])

\* C6 witness: one request was answered 500 for a parse failure although its
\* form carried no image (the earlier check decides), and another was answered
\* 200 with a ranking that stops before the twelfth entry.
C6_Witness ==
    \E r1, r2 \in DOMAIN req :
        /\ Answered(r1, 500) /\ req[r1].parseErr /\ ~HasFile(req[r1].image)
        /\ Answered(r2, 200) /\ Len(Emitted(r2)) < 12

\* C7: the interleaved-to-planar re-layout is a bijection on indices that
\* alters no value (Height x Width standing for 640 x 640): for every
\* (row, col, channel), output[channel*H*W + row*W + col] equals the scaled
\* input at row*W*3 + col*3 + channel, every output index is written exactly
\* once, and re-interleaving the output reproduces the scaled buffer.
C7_RelayoutBijection ==
    \A r \in DOMAIN req :
        req[r].inputTensor # <<>> =>
            LET out == req[r].inputTensor
                scaled == req[r].nhwcTensor
                n == Height * Width * 3
                reinterleaved ==
                    [k \in 1..n |->
                        LET row == (k - 1) \div (Width * 3)
                            col == ((k - 1) % (Width * 3)) \div 3
                            channel == (k - 1) % 3
                        IN  out[channel * Height * Width + row * Width + col + 1]]
            IN  /\ Len(out) = n /\ Len(scaled) = n
                /\ \A row \in 0..(Height - 1), col \in 0..(Width - 1), channel \in 0..2 :
                      out[channel * Height * Width + row * Width + col + 1]
                          = scaled[row * Width * 3 + col * 3 + channel + 1]
                /\ \A k \in 1..n : req[r].writes[k] = 1
                /\ reinterleaved = scaled

\* C7 witness: a tensor was built from a buffer whose scaled values are
\* pairwise different, so that any two positions can be told apart.
C7_Witness ==
    \E r \in DOMAIN req :
        /\ req[r].inputTensor # <<>>
        /\ Cardinality(Range(req[r].nhwcTensor)) = Height * Width * 3

\* C10: `loading` is true only while a handleUpload call made with a selected
\* file is in progress; by every path on which its fetch settles (OK response,
\* non-OK response, thrown error) `loading` is false once the call ends;
\* `predictions` is replaced by handleUpload only on an OK response; and
\* handleUpload with no file selected sets an error without sending a request
\* or setting `loading`.
C10_Loading ==
    /\ [](loading <=> (ui.pc \in {"fetching", "readingBody"} /\ ui.body # ""))
    /\ [][ /\ (ui.pc # "idle" /\ ui'.pc = "idle") => ~loading'
           /\ predictions' # predictions =>
                 \/ /\ ui.pc = "readingBody" /\ ui'.pc = "idle"
                    /\ ui.res[1].ok /\ ui.res[1].validJson
                    /\ predictions' = ui.res[1].predictions
                 \/ ui' = ui /\ predictions' = Null /\ file' # ""
           /\ ui'.sent # ui.sent => (file # "" /\ ui'.body = file /\ ui'.sent = ui.sent + 1)
           /\ (ui.pc = "idle" /\ file = "" /\ file' = "" /\ error' # error) =>
                 /\ error' = "Please select an image."
                 /\ ui' = ui /\ ~loading'
         ]_vars

\* C10 witness: an upload has ended with an OK response that replaced
\* `predictions`, and `loading` is false again.
C10_Witness ==
    /\ ui.pc = "idle" /\ ui.sent > 0 /\ ~loading
    /\ predictions.kind = "list" /\ Len(predictions.items) > 0

=============================================================================
